---- MODULE Spec2Model ----
(***************************************************************************)
(* Website Monitoring API (src/main.py, src/schemas.py).                   *)
(*                                                                         *)
(* The state is the document store (three collections), the run_check      *)
(* invocations in flight, and the response of the handler that completed   *)
(* last.  The environment supplies the request payloads and the outcome of *)
(* each outbound HTTP probe.                                               *)
(*                                                                         *)
(* Strings whose content matters (keywords, response bodies) are sequences *)
(* of one-character strings; strings of which only the length matters      *)
(* (names, exception messages) are their length.  An Optional value is a   *)
(* sequence of length 0 (None) or 1.                                       *)
(***************************************************************************)
EXTENDS Integers, Sequences, FiniteSets, TLC

\* ---------------------------------------------------------------- bounds
MaxWebsites == 1
MaxCategories == 1
\* check invocations past their lookup, over a whole behaviour
MaxChecks == 2
\* keywords of the website probed under SpecProbe
MaxKeywords == 3
\* check results in the store under SpecReads
MaxStored == 2

\* ------------------------------------------------------ program constants
MaxErrorLen == 500
DefaultLimit == 20
SummaryWindow == 200
MinInterval == 30
MaxInterval == 86400
MinNameLen == 2
MaxNameLen == 150
CategoryMaxNameLen == 100

\* ------------------------------------------------------------- Optional
None == <<>>
Some(v) == <<v>>
IsSome(o) == Len(o) = 1
Val(o) == o[1]

Min(a, b) == IF a <= b THEN a ELSE b
Abs(a) == IF a < 0 THEN 0 - a ELSE a

\* --------------------------------------------------------------- strings
Str0 == <<>>
LowerChar(c) == IF c = "A" THEN "a" ELSE IF c = "B" THEN "b" ELSE c
\* str.lower()
Lower(s) == [i \in 1..Len(s) |-> LowerChar(s[i])]
\* k in s  (Python substring test; the empty string is in every string)
Contains(k, s) ==
    \E i \in 0..(Len(s) - Len(k)) : SubSeq(s, i + 1, i + Len(k)) = k

\* ----------------------------------------------------------- identifiers
\* An ObjectId is the n-th identifier the store generated for collection c.
ObjectId(c, n) == [c |-> c, n |-> n]
NoId == ObjectId("none", 0)
\* An id string is 24 hex digits (of an ObjectId, in lower or upper case),
\* the empty string, or something else.
HexStr(id, upper) == [kind |-> "hex", id |-> id, upper |-> upper]
EmptyStr == [kind |-> "empty", id |-> NoId, upper |-> FALSE]
JunkStr == [kind |-> "junk", id |-> NoId, upper |-> FALSE]
\* str(ObjectId): lower-case hex
StrOfId(id) == HexStr(id, FALSE)
\* ObjectId(id_str) succeeds
OidValid(s) == s.kind = "hex"
\* ObjectId(id_str): the case of the hex digits is lost
OidValue(s) == s.id

\* ------------------------------------------------------------ HTTP probe
\* What the monitored server and the network do to one requests.get call:
\*   raised     requests.get raised (connection refused, timeout, malformed
\*              URL, response truncated while the body was being read)
\*   msg        len(str(e)) of the exception, when one is raised
\*   status     the response's status code
\*   body       the response's body
\*   elapsed_us perf_counter() difference around requests.get, microseconds
\*   charset_ok the charset declared by the response is one str() decodes with
\*              errors="replace" (False: e.g. charset=idna, resp.text raises
\*              UnicodeError)
Outcome(raised, msg, status, body, elapsed_us, charset_ok) ==
    [raised |-> raised, msg |-> msg, status |-> status, body |-> body,
     elapsed_us |-> elapsed_us, charset_ok |-> charset_ok]
NoOutcome == Outcome(TRUE, 0, 0, Str0, 0, TRUE)

\* The outcomes the API specification draws from: a refused connection; a
\* 200 answered within a millisecond; a 200 whose body cannot be decoded; a
\* 400 with a body.
Outcomes ==
    { Outcome(TRUE, MaxErrorLen + 1, 0, Str0, 0, TRUE),
      Outcome(FALSE, 0, 200, <<"x", "a", "B">>, 900, TRUE),
      Outcome(FALSE, 83, 200, <<"a", "B">>, 200000, FALSE),
      Outcome(FALSE, 83, 400, <<"a">>, 100900, FALSE) }

\* The outcomes the probe specification draws from.
AllOutcomes ==
    {Outcome(TRUE, m, 0, Str0, 0, TRUE) :
        m \in {0, MaxErrorLen, MaxErrorLen + 1}}
    \cup {Outcome(FALSE, 83, st, b, us, ok) :
             st \in {199, 200, 399, 400, 599, 600},
             b \in {Str0, <<"x", "a", "B">>, <<"A">>},
             us \in {900, 100900},
             ok \in BOOLEAN}

\* is_up with the lower bound excluded
IsUpOffByOne(status) == 200 < status /\ status < 400

\* is_up = 200 <= resp.status_code < 400
IsUp(status) == 200 <= status /\ status < 400

\* bool(resp): requests.Response.__bool__ is Response.ok, False for a status
\* in [400, 600)
RespTruthy(o) == ~(400 <= o.status /\ o.status < 600)

\* resp.text raises: the body is not empty and its declared charset cannot be
\* decoded with errors="replace" (an empty body returns "" before decoding)
TextRaises(o) == o.body # Str0 /\ ~o.charset_ok

\* str(e), not truncated
TruncateNone(n) == n

\* str(e)[:500]
Truncate(n) == Min(n, MaxErrorLen)

\* round(duration) in place of int(duration)
ResponseTimeMsRounded(o) == (o.elapsed_us + 500) \div 1000

\* int(duration), duration = elapsed seconds * 1000
ResponseTimeMs(o) == o.elapsed_us \div 1000

\* for kw in keywords: if kw and kw.lower() in content: matches.append(kw)
Matches(keywords, content) ==
    SelectSeq(keywords, LAMBDA kw : kw # Str0 /\ Contains(Lower(kw), content))

\* content = resp.text.lower() if resp and resp.text else ""
Content(o) ==
    IF RespTruthy(o) /\ o.body # Str0 THEN Lower(o.body) ELSE Str0

Locals(status_code, is_up, response_time_ms, matches, error) ==
    [status_code |-> status_code, is_up |-> is_up,
     response_time_ms |-> response_time_ms, keyword_matches |-> matches,
     error |-> error]

\* The except branch without its "is_up = False"
ProbeStepKeepsIsUp(keywords, o) ==
    IF o.raised
    THEN Locals(None, FALSE, None, <<>>, Some(Truncate(o.msg)))
    ELSE IF RespTruthy(o) /\ TextRaises(o)
    THEN Locals(Some(o.status), IsUp(o.status), Some(ResponseTimeMs(o)),
                <<>>, Some(Truncate(o.msg)))
    ELSE Locals(Some(o.status), IsUp(o.status), Some(ResponseTimeMs(o)),
                Matches(keywords, Content(o)), None)

\* The locals of run_check after its try/except block.
ProbeStep(keywords, o) ==
    IF o.raised
    THEN \* requests.get raised: nothing was assigned yet
         Locals(None, FALSE, None, <<>>, Some(Truncate(o.msg)))
    ELSE IF RespTruthy(o) /\ TextRaises(o)
    THEN \* resp.text raised after status_code and response_time_ms were set
         Locals(Some(o.status), FALSE, Some(ResponseTimeMs(o)), <<>>,
                Some(Truncate(o.msg)))
    ELSE Locals(Some(o.status), IsUp(o.status), Some(ResponseTimeMs(o)),
                Matches(keywords, Content(o)), None)

\* ------------------------------------------------------- request payloads
KeywordsA == << <<"A">>, Str0, <<"b", "x">>, <<"A">> >>

\* The keywords and keyword lists the probe specification draws from.
KeywordStrings == {Str0, <<"A">>, <<"b">>, <<"x", "A">>}
KeywordLists ==
    UNION {[1..n -> KeywordStrings] : n \in 0..MaxKeywords}

WebsitePayload(name, url_ok, keywords, interval_seconds) ==
    [name |-> name, url_ok |-> url_ok, keywords |-> keywords,
     interval_seconds |-> interval_seconds]

WebsitePayloads ==
    { WebsitePayload(MinNameLen, TRUE, KeywordsA, MinInterval),
      WebsitePayload(MaxNameLen, TRUE, KeywordsA, MaxInterval),
      WebsitePayload(MinNameLen - 1, TRUE, <<>>, MinInterval),
      WebsitePayload(MaxNameLen + 1, TRUE, <<>>, MaxInterval),
      WebsitePayload(MinNameLen, TRUE, <<>>, MinInterval - 1),
      WebsitePayload(MinNameLen, TRUE, <<>>, MaxInterval + 1),
      WebsitePayload(MinNameLen, FALSE, <<>>, MinInterval) }

CategoryNames == {MinNameLen - 1, MinNameLen, CategoryMaxNameLen + 1}

\* WebsiteIn: url: HttpUrl, interval_seconds: Field(300, ge=30, le=86400);
\* name: str carries no length constraint
WebsiteInValid(p) ==
    p.url_ok /\ MinInterval <= p.interval_seconds
             /\ p.interval_seconds <= MaxInterval

\* schemas.Website: name: Field(..., min_length=2, max_length=150), and the
\* constraints of WebsiteIn again
WebsiteSchemaValid(p) ==
    /\ MinNameLen <= p.name /\ p.name <= MaxNameLen
    /\ p.url_ok
    /\ MinInterval <= p.interval_seconds /\ p.interval_seconds <= MaxInterval

\* CategoryIn and schemas.Category: name: Field(..., min_length=2, max_length=100)
CategoryValid(name) == MinNameLen <= name /\ name <= CategoryMaxNameLen

\* ---------------------------------------------------------- store queries
RECURSIVE SortDesc(_)
\* find(...).sort("created_at", -1) over a set of documents
SortDesc(docs) ==
    IF docs = {} THEN <<>>
    ELSE LET m == CHOOSE r \in docs :
                      \A q \in docs : q.created_at <= r.created_at
         IN <<m>> \o SortDesc(docs \ {m})

\* cursor.limit(n): 0 is no limit, a negative n is a limit of abs(n)
Limit(seq, n) ==
    IF n = 0 THEN seq ELSE SubSeq(seq, 1, Min(Abs(n), Len(seq)))

Range(seq) == {seq[i] : i \in 1..Len(seq)}

\* filt = {"website_id": website_id} if website_id else {}
Filter(docs, website_id) ==
    IF IsSome(website_id) /\ Val(website_id) # EmptyStr
    THEN {r \in docs : r.website_id = Val(website_id)}
    ELSE docs

\* latest_checks(limit, website_id): the documents returned
LatestChecks(docs, limit, website_id) ==
    Limit(SortDesc(Filter(docs, website_id)),
          IF IsSome(limit) THEN Val(limit) ELSE DefaultLimit)

RECURSIVE SumSeq(_)
SumSeq(s) == IF s = <<>> THEN 0 ELSE s[1] + SumSeq(Tail(s))

\* summary(): over the 200 most recent check results
SummaryOf(nsites, ncats, docs) ==
    LET recent == Limit(SortDesc(docs), SummaryWindow)
        up == Len(SelectSeq(recent, LAMBDA r : r.is_up))
        withrt == SelectSeq(recent, LAMBDA r :
                      IsSome(r.response_time_ms) /\ Val(r.response_time_ms) # 0)
        rts == [i \in 1..Len(withrt) |-> Val(withrt[i].response_time_ms)]
    IN [total_sites |-> nsites, total_categories |-> ncats,
        recent_checks |-> Len(recent), up |-> up, down |-> Len(recent) - up,
        avg_response_time_ms |->
            IF rts # <<>> THEN Some(SumSeq(rts) \div Len(rts)) ELSE None]

\* ------------------------------------------------------------------ state
VARIABLES
    category,     \* db["category"]: documents in insertion order
    website,      \* db["website"]
    checkresult,  \* db["checkresult"]
    now,          \* the store's clock, read for created_at
    req,          \* run_check invocations in flight, one per worker
    probes,       \* number of outbound requests.get calls issued so far
    response      \* the response of the handler that completed last

vars == <<category, website, checkresult, now, req, probes, response>>

\* The request handlers that run concurrently.
Workers == {1, 2}

NoLocals == Locals(None, FALSE, None, <<>>, None)

Idle == [pc |-> "idle", website_id |-> JunkStr, keywords |-> <<>>,
         outcome |-> NoOutcome, locals |-> NoLocals]

NoPayload == WebsitePayload(0, FALSE, <<>>, 0)

\* A response: the handler, its HTTP status code, the request's inputs (and,
\* for run_check, the outcome its probe met) and the body.
Response(op, code, website_id, limit, payload, outcome, items, summary_) ==
    [op |-> op, code |-> code, website_id |-> website_id, limit |-> limit,
     payload |-> payload, outcome |-> outcome, items |-> items,
     summary |-> summary_]

NoResponse == Response("none", 0, None, None, NoPayload, NoOutcome, <<>>, None)

\* CheckResultOut built from a stored document (latest_checks)
CheckResultOut(doc) ==
    [id |-> StrOfId(doc.id), website_id |-> doc.website_id,
     status_code |-> doc.status_code, is_up |-> doc.is_up,
     response_time_ms |-> doc.response_time_ms,
     keyword_matches |-> doc.keyword_matches, error |-> doc.error,
     created_at |-> Some(doc.created_at)]

\* CheckResultOut built by run_check from its locals, created_at=None
RunCheckOut(new_id, website_id, l) ==
    [id |-> StrOfId(new_id), website_id |-> website_id,
     status_code |-> l.status_code, is_up |-> l.is_up,
     response_time_ms |-> l.response_time_ms,
     keyword_matches |-> l.keyword_matches, error |-> l.error,
     created_at |-> None]

\* CheckResultSchema(website_id=website_id, ...) as create_document stores it
CheckDoc(id, created_at, website_id, l) ==
    [id |-> id, created_at |-> created_at, website_id |-> website_id,
     status_code |-> l.status_code, is_up |-> l.is_up,
     response_time_ms |-> l.response_time_ms,
     keyword_matches |-> l.keyword_matches, error |-> l.error]

\* The stored website: of its fields, the handlers modelled read only
\* _id and keywords back (url names the server the probe outcome comes from).
WebsiteDoc(id, p) == [id |-> id, keywords |-> p.keywords]

CategoryDoc(id, name) == [id |-> id, name |-> name]

\* The identifier the store assigns to the next document of a collection.
NewId(c, coll) == ObjectId(c, Len(coll) + 1)

\* create_document(collection, doc): one insert
CreateDocument(coll, doc) == coll' = Append(coll, doc)

\* db["website"].find_one({"_id": oid(website_id)})
FindWebsite(s) == {w \in Range(website) : w.id = OidValue(s)}

\* The id strings a caller sends: the id of every stored website and of the
\* next one, the first one's also in upper case, and a string that is no
\* ObjectId.
IdStrings ==
    {StrOfId(ObjectId("website", n)) : n \in 1..(Len(website) + 1)}
    \cup {HexStr(ObjectId("website", 1), TRUE), JunkStr}

Init ==
    /\ category = <<>>
    /\ website = <<>>
    /\ checkresult = <<>>
    /\ now = 1
    /\ req = [w \in Workers |-> Idle]
    /\ probes = 0
    /\ response = NoResponse

\* ---------------------------------------------------------------- actions
\* POST /api/categories
CreateCategory(name) ==
    /\ IF ~CategoryValid(name)
       THEN /\ response' = Response("create_category", 422, None, None,
                                    NoPayload, NoOutcome, <<>>, None)
            /\ UNCHANGED category
       ELSE /\ Len(category) < MaxCategories
            /\ CreateDocument(category,
                              CategoryDoc(NewId("category", category), name))
            /\ response' = Response("create_category", 200,
                                    Some(StrOfId(NewId("category", category))),
                                    None, NoPayload, NoOutcome, <<>>, None)
    /\ UNCHANGED <<website, checkresult, now, req, probes>>

\* POST /api/websites
CreateWebsite(p) ==
    /\ IF ~WebsiteInValid(p)
       THEN \* FastAPI rejects the body: RequestValidationError, 422
            /\ response' = Response("create_website", 422, None, None, p,
                                    NoOutcome, <<>>, None)
            /\ UNCHANGED website
       ELSE IF ~WebsiteSchemaValid(p)
       THEN \* WebsiteSchema(**data) raises pydantic.ValidationError inside
            \* the handler: an unhandled exception, 500
            /\ response' = Response("create_website", 500, None, None, p,
                                    NoOutcome, <<>>, None)
            /\ UNCHANGED website
       ELSE /\ Len(website) < MaxWebsites
            /\ CreateDocument(website,
                              WebsiteDoc(NewId("website", website), p))
            /\ response' = Response("create_website", 200,
                                    Some(StrOfId(NewId("website", website))),
                                    None, p, NoOutcome, <<>>, None)
    /\ UNCHANGED <<category, checkresult, now, req, probes>>

\* The number of check invocations past their lookup, finished or not.
Started ==
    Len(checkresult) + Cardinality({w \in Workers : req[w].pc # "idle"})

\* The lookup without its "if not item: raise HTTPException(404)"
RunCheckLookupNoCheck(w, s) ==
    /\ req[w].pc = "idle"
    /\ \A v \in Workers : v < w => req[v].pc # "idle"
    /\ IF ~OidValid(s)
       THEN /\ response' = Response("run_check", 400, Some(s), None,
                                    NoPayload, NoOutcome, <<>>, None)
            /\ UNCHANGED req
       ELSE /\ Started < MaxChecks
            /\ req' = [req EXCEPT ![w] =
                         [pc |-> "probe", website_id |-> s,
                          keywords |-> <<>>,
                          outcome |-> NoOutcome, locals |-> NoLocals]]
            /\ UNCHANGED response
    /\ UNCHANGED <<category, website, checkresult, now, probes>>

\* POST /api/check/{website_id}, lines 148-159: the lookup.  A free worker
\* takes the request.
RunCheckLookup(w, s) ==
    /\ req[w].pc = "idle"
    /\ \A v \in Workers : v < w => req[v].pc # "idle"
    /\ IF ~OidValid(s)
       THEN /\ response' = Response("run_check", 400, Some(s), None,
                                    NoPayload, NoOutcome, <<>>, None)
            /\ UNCHANGED req
       ELSE IF FindWebsite(s) = {}
       THEN /\ response' = Response("run_check", 404, Some(s), None,
                                    NoPayload, NoOutcome, <<>>, None)
            /\ UNCHANGED req
       ELSE /\ Started < MaxChecks
            /\ LET item == CHOOSE i \in FindWebsite(s) : TRUE
               IN req' = [req EXCEPT ![w] =
                            [pc |-> "probe", website_id |-> s,
                             keywords |-> item.keywords,
                             outcome |-> NoOutcome, locals |-> NoLocals]]
            /\ UNCHANGED response
    /\ UNCHANGED <<category, website, checkresult, now, probes>>

\* run_check, lines 161-174: the probe and its try/except
RunCheckProbe(w, o) ==
    /\ req[w].pc = "probe"
    /\ req' = [req EXCEPT ![w].pc = "persist", ![w].outcome = o,
                          ![w].locals = ProbeStep(req[w].keywords, o)]
    /\ probes' = probes + 1
    /\ UNCHANGED <<category, website, checkresult, now, response>>

\* The insert retried: the invocation stays where it can store again
RunCheckPersistRetry(w) ==
    /\ req[w].pc = "persist"
    /\ Len(checkresult) < MaxChecks + 1
    /\ CreateDocument(checkresult,
                      CheckDoc(NewId("checkresult", checkresult), now,
                               req[w].website_id, req[w].locals))
    /\ now' = now + 1
    /\ response' = Response("run_check", 200, Some(req[w].website_id), None,
                            NoPayload, req[w].outcome,
                            <<RunCheckOut(NewId("checkresult", checkresult),
                                          req[w].website_id, req[w].locals)>>,
                            None)
    /\ UNCHANGED <<category, website, probes, req>>

\* run_check, lines 176-195: the result is stored and returned
RunCheckPersist(w) ==
    /\ req[w].pc = "persist"
    /\ CreateDocument(checkresult,
                      CheckDoc(NewId("checkresult", checkresult), now,
                               req[w].website_id, req[w].locals))
    /\ now' = now + 1
    /\ response' = Response("run_check", 200, Some(req[w].website_id), None,
                            NoPayload, req[w].outcome,
                            <<RunCheckOut(NewId("checkresult", checkresult),
                                          req[w].website_id, req[w].locals)>>,
                            None)
    /\ req' = [req EXCEPT ![w] = Idle]
    /\ UNCHANGED <<category, website, probes>>

\* The (limit, website_id) queries the API specification draws from.
Queries ==
    {<<None, None>>, <<Some(1), Some(HexStr(ObjectId("website", 1), TRUE))>>}

\* The queries the read specification draws from.
AllQueries ==
    {<<l, f>> :
        l \in {None, Some(-2), Some(-1), Some(0), Some(1), Some(2)},
        f \in {None, Some(EmptyStr), Some(JunkStr),
               Some(HexStr(ObjectId("website", 1), FALSE)),
               Some(HexStr(ObjectId("website", 1), TRUE)),
               Some(HexStr(ObjectId("website", 2), FALSE))}}

\* GET /api/checks/latest
LatestChecksGet(limit, website_id) ==
    /\ LET items == LatestChecks(Range(checkresult), limit, website_id)
       IN response' = Response("latest_checks", 200, website_id, limit,
                               NoPayload, NoOutcome,
                               [i \in 1..Len(items) |-> CheckResultOut(items[i])],
                               None)
    /\ UNCHANGED <<category, website, checkresult, now, req, probes>>

\* GET /api/summary
Summary ==
    /\ response' = Response("summary", 200, None, None, NoPayload, NoOutcome,
                            <<>>, Some(SummaryOf(Len(website), Len(category),
                                                 Range(checkresult))))
    /\ UNCHANGED <<category, website, checkresult, now, req, probes>>

Next ==
    \/ \E name \in CategoryNames : CreateCategory(name)
    \/ \E p \in WebsitePayloads : CreateWebsite(p)
    \/ \E w \in Workers, s \in IdStrings : RunCheckLookup(w, s)
    \/ \E w \in Workers, o \in Outcomes : RunCheckProbe(w, o)
    \/ \E w \in Workers : RunCheckPersist(w)
    \/ \E q \in Queries : LatestChecksGet(q[1], q[2])
    \/ Summary

Spec == Init /\ [][Next]_vars

\* ------------------------------------------------- the probe, on its own
\* One website, with any of the keyword lists, is in the store; one check
\* invocation runs against it and meets any of the outcomes.
InitProbe ==
    /\ category = <<>>
    /\ website \in {<<[id |-> ObjectId("website", 1), keywords |-> k]>> :
                       k \in KeywordLists}
    /\ checkresult = <<>>
    /\ now = 1
    /\ req = [w \in Workers |-> Idle]
    /\ probes = 0
    /\ response = NoResponse

NextProbe ==
    \/ \E s \in IdStrings : checkresult = <<>> /\ RunCheckLookup(1, s)
    \/ \E o \in AllOutcomes : RunCheckProbe(1, o)
    \/ RunCheckPersist(1)

SpecProbe == InitProbe /\ [][NextProbe]_vars

\* ------------------------------------------------- the reads, on their own
\* The check results one invocation can store against the websites 1 and 2.
StorableChecks(i) ==
    {CheckDoc(ObjectId("checkresult", i), i, s, ProbeStep(KeywordsA, o)) :
        s \in {HexStr(ObjectId("website", 1), FALSE),
               HexStr(ObjectId("website", 1), TRUE),
               HexStr(ObjectId("website", 2), FALSE)},
        o \in Outcomes}

\* The stores n check invocations, one after the other, leave behind.
StoresOf(n) ==
    {st \in [1..n -> UNION {StorableChecks(i) : i \in 1..n}] :
        \A i \in 1..n : st[i] \in StorableChecks(i)}

InitReads ==
    /\ category = <<>>
    /\ website = [n \in 1..2 |->
                    [id |-> ObjectId("website", n), keywords |-> KeywordsA]]
    /\ checkresult \in UNION {StoresOf(n) : n \in 0..MaxStored}
    /\ now = Len(checkresult) + 1
    /\ req = [w \in Workers |-> Idle]
    /\ probes = Len(checkresult)
    /\ response = NoResponse

NextReads ==
    \/ \E q \in AllQueries : LatestChecksGet(q[1], q[2])
    \/ Summary

SpecReads == InitReads /\ [][NextReads]_vars

\* ======================================================== properties
\* The last response is that of a run_check invocation that passed its lookup.
CheckDone == response.op = "run_check" /\ response.code = 200
Result == response.items[1]
Probe == response.outcome
\* The stored website a run_check response is about.
Site == CHOOSE w \in Range(website) : w.id = OidValue(Val(response.website_id))
\* The documents of the store that a returned CheckResultOut names.
Stored(out) == {d \in Range(checkresult) : StrOfId(d.id) = out.id}
SameFields(d, out) ==
    /\ d.website_id = out.website_id
    /\ d.status_code = out.status_code
    /\ d.is_up = out.is_up
    /\ d.response_time_ms = out.response_time_ms
    /\ d.keyword_matches = out.keyword_matches
    /\ d.error = out.error
\* The probe step raised: the request itself, or the decoding of a non-empty
\* body of a response that is not an HTTP error.
Raised(o) ==
    \/ o.raised
    \/ ~o.raised /\ ~(400 <= o.status /\ o.status < 600)
                 /\ o.body # Str0 /\ ~o.charset_ok

\* ---------------------------------------------------------------- C1
\* C1 as stated: when requests.get returns a response with status S, the
\* returned and persisted result has status_code = S and is_up = (200 <= S <
\* 400); when it returns none, is_up = false.
C1_AsStated ==
    CheckDone =>
        /\ ~Probe.raised =>
             /\ Result.status_code = Some(Probe.status)
             /\ Result.is_up = (200 <= Probe.status /\ Probe.status < 400)
             /\ \A d \in Stored(Result) : SameFields(d, Result)
        /\ Probe.raised => ~Result.is_up

\* C1 amended: status_code = S, and is_up is true exactly when 200 <= S < 400
\* and no exception was raised after the response arrived (error absent);
\* without a response is_up = false.
C1_IsUp ==
    CheckDone =>
        /\ ~Probe.raised =>
             /\ Result.status_code = Some(Probe.status)
             /\ Result.is_up = (/\ 200 <= Probe.status /\ Probe.status < 400
                                /\ Result.error = None)
             /\ Stored(Result) # {}
             /\ \A d \in Stored(Result) : SameFields(d, Result)
        /\ Probe.raised => ~Result.is_up

C1_Witness ==
    /\ CheckDone /\ ~Probe.raised /\ Probe.status = 399
    /\ Result.is_up /\ Result.status_code = Some(399)

\* ---------------------------------------------------------------- C2
\* C2 as stated: every stored CheckResult has (1) is_up => status_code in
\* [200, 400) and (2) error present => is_up false and status_code absent.
C2_AsStated ==
    \A r \in Range(checkresult) :
        /\ r.is_up => /\ IsSome(r.status_code)
                      /\ 200 <= Val(r.status_code) /\ Val(r.status_code) < 400
        /\ IsSome(r.error) => ~r.is_up /\ r.status_code = None

\* C2 amended: (1) as stated; (2) error present => is_up false and no keyword
\* matches; status_code is present exactly when response_time_ms is: both are
\* absent when the request itself failed and both are kept when the failure
\* came after the response was received.
C2_Invariant ==
    \A r \in Range(checkresult) :
        /\ r.is_up => /\ IsSome(r.status_code)
                      /\ 200 <= Val(r.status_code) /\ Val(r.status_code) < 400
        /\ IsSome(r.error) => ~r.is_up /\ r.keyword_matches = <<>>
        /\ IsSome(r.status_code) <=> IsSome(r.response_time_ms)

C2_Witness ==
    \E r \in Range(checkresult) :
        IsSome(r.error) /\ r.status_code = Some(200) /\ ~r.is_up

\* ---------------------------------------------------------------- C3
\* C3: whatever the probe step raises, run_check answers 200 with is_up =
\* false, error present and at most 500 characters long, and no keyword
\* matches; error is absent when the probe step raises nothing.  A run_check
\* response is 400 or 404 only for an id that is malformed or names no website.
C3_ProbeFailure ==
    /\ CheckDone =>
         /\ Raised(Probe) =>
              /\ ~Result.is_up
              /\ IsSome(Result.error) /\ Val(Result.error) <= 500
              /\ Val(Result.error) = Min(Probe.msg, 500)
              /\ Result.keyword_matches = <<>>
         /\ ~Raised(Probe) => Result.error = None
    /\ \A w \in Workers : req[w].pc = "persist" =>
         (Raised(req[w].outcome) <=> IsSome(req[w].locals.error))
    /\ response.op = "run_check" => response.code \in {200, 400, 404}

C3_Witness ==
    /\ CheckDone /\ Probe.raised /\ Probe.msg > 500
    /\ Result.error = Some(500) /\ ~Result.is_up

\* ---------------------------------------------------------------- C4
\* The keywords of the probed website whose lower-case form is in the
\* lower-case text, in input order, one entry per occurrence.
Found(keywords, text) ==
    SelectSeq(keywords, LAMBDA kw : Contains(Lower(kw), Lower(text)))

\* C4: after a probe that raised nothing, keyword_matches holds exactly the
\* keywords (the empty one included) that are case-insensitive substrings of
\* the response body, in input order, duplicates kept.
C4_AsStated ==
    (CheckDone /\ Result.error = None) =>
        Result.keyword_matches = Found(Site.keywords, Probe.body)

\* A 400 page that holds the website's only keyword, and no match recorded.
C4_Witness ==
    /\ CheckDone /\ Result.error = None
    /\ Probe.status = 400 /\ Probe.body = <<"x", "a", "B">>
    /\ Site.keywords = << <<"A">> >>
    /\ Result.keyword_matches = <<>>

\* ---------------------------------------------------------------- C5
\* The steps of the check invocations: lookup, probe, persist, in that order,
\* each on the invocation's own locals.
C5_Step ==
    /\ \A w \in Workers :
         /\ (req[w].pc = "persist" /\ req'[w].pc # "persist") =>
              /\ req'[w].pc = "idle"
              /\ Len(checkresult') = Len(checkresult) + 1
              /\ LET d == checkresult'[Len(checkresult')]
                 IN /\ d.website_id = req[w].website_id
                    /\ SameFields(d, RunCheckOut(d.id, req[w].website_id,
                                                  req[w].locals))
                    /\ \A e \in Range(checkresult) : e.id # d.id
                    /\ response'.items = <<RunCheckOut(d.id, d.website_id,
                                                       req[w].locals)>>
         /\ (req[w].pc = "probe" /\ req'[w].pc # "probe") =>
              /\ req'[w].pc = "persist"
              /\ probes' = probes + 1
              /\ req'[w].website_id = req[w].website_id
         /\ (req[w].pc = "idle" /\ req'[w].pc # "idle") =>
              /\ req'[w].pc = "probe"
              /\ FindWebsite(req'[w].website_id) # {}
         /\ req'[w] # req[w] => \A v \in Workers \ {w} : req'[v] = req[v]
    /\ checkresult' # checkresult =>
         /\ \E w \in Workers : req[w].pc = "persist" /\ req'[w].pc = "idle"
         /\ SubSeq(checkresult', 1, Len(checkresult)) = checkresult
    /\ probes' # probes =>
         \E w \in Workers : req[w].pc = "probe" /\ req'[w].pc = "persist"
    /\ (response' # response /\ response'.op = "run_check"
          /\ response'.code \in {400, 404}) =>
         (checkresult' = checkresult /\ probes' = probes /\ req' = req)

\* Every probe issued is matched by one stored result or by one invocation
\* about to store, and no two stored results share an id.
C5_Inv ==
    /\ probes = Len(checkresult)
                  + Cardinality({w \in Workers : req[w].pc = "persist"})
    /\ \A i, j \in 1..Len(checkresult) :
         checkresult[i].id = checkresult[j].id => i = j

\* C5: under any interleaving, a check invocation past its lookup persists
\* exactly one CheckResult when it completes, built from its own locals, with
\* an id no stored result has; nothing else adds a CheckResult; a step of one
\* invocation leaves the other invocations' locals alone; and a 400 or 404
\* answer issues no probe and stores nothing.
C5_OnePerInvocation == [](C5_Inv) /\ [][C5_Step]_vars

C5_Witness ==
    /\ \A w \in Workers : req[w].pc = "persist"
    /\ \E v, w \in Workers : req[v].locals # req[w].locals

\* ---------------------------------------------------------------- C6
LatestDone == response.op = "latest_checks"
\* The stored results the query's filter selects: all when website_id is
\* omitted or empty, otherwise those whose website_id is the same string.
Matching ==
    IF response.website_id = None \/ response.website_id = Some(EmptyStr)
    THEN Range(checkresult)
    ELSE {d \in Range(checkresult) : d.website_id = Val(response.website_id)}
Requested == IF response.limit = None THEN 20 ELSE Val(response.limit)
\* The items are stored results selected by the filter, newest first, and no
\* selected result left out is newer than one returned.
LatestOf(items) ==
    /\ \A i \in 1..Len(items) :
         \E d \in Matching : items[i] = CheckResultOut(d)
    /\ \A i, j \in 1..Len(items) :
         i < j => Val(items[i].created_at) > Val(items[j].created_at)
    /\ \A d \in Matching :
         (\A i \in 1..Len(items) : items[i].id # StrOfId(d.id)) =>
             \A i \in 1..Len(items) : d.created_at < Val(items[i].created_at)

\* C6: for every integer limit, 0 and negatives included, at most
\* limit records (20 when omitted) are returned, all matching the filter,
\* newest first, and they are the most recent matching ones.
C6_AsStated ==
    LatestDone =>
        /\ Len(response.items) <= Requested
        /\ LatestOf(response.items)

\* limit=0 answered with both stored results.
C6_Witness ==
    /\ LatestDone /\ response.limit = Some(0) /\ response.website_id = None
    /\ Len(checkresult) = 2 /\ Len(response.items) = 2

\* ---------------------------------------------------------------- C7
\* The window: the (at most 200) most recently created results.
Window ==
    {d \in Range(checkresult) :
        Cardinality({e \in Range(checkresult) :
                        e.created_at > d.created_at}) < 200}
Timed == {d \in Window : d.response_time_ms # None}
RECURSIVE TotalMs(_)
TotalMs(ds) ==
    IF ds = {} THEN 0
    ELSE LET d == CHOOSE x \in ds : TRUE
         IN Val(d.response_time_ms) + TotalMs(ds \ {d})

\* C7: over the window, up counts the results with is_up, down is
\* the rest, and avg_response_time_ms is the rounded-down mean over the
\* results that recorded a response time (0 ms counts), absent exactly when
\* none recorded one.
C7_AsStated ==
    response.op = "summary" =>
        LET sm == Val(response.summary)
        IN /\ sm.up = Cardinality({d \in Window : d.is_up})
           /\ sm.down = Cardinality(Window) - sm.up
           /\ sm.avg_response_time_ms =
                IF Timed = {} THEN None
                ELSE Some(TotalMs(Timed) \div Cardinality(Timed))

\* The only stored result recorded 0 ms, and the summary reports no average.
C7_Witness ==
    /\ response.op = "summary"
    /\ Len(checkresult) = 1 /\ checkresult[1].response_time_ms = Some(0)
    /\ Val(response.summary).avg_response_time_ms = None

\* ---------------------------------------------------------------- C8
InRange(p) ==
    /\ 30 <= p.interval_seconds /\ p.interval_seconds <= 86400
    /\ 2 <= p.name /\ p.name <= 150
\* A step is the completion of a POST /api/websites request.
CreateWebsiteStep ==
    /\ response'.op = "create_website"
    /\ response' # response \/ website' # website

\* C8: a POST /api/websites whose interval_seconds is outside
\* [30, 86400] or whose name is not 2 to 150 characters long is answered with
\* a 4xx code and leaves the collection unchanged; one with every field in
\* range stores exactly one Website.
C8_AsStated ==
    [][CreateWebsiteStep =>
         /\ ~InRange(response'.payload) =>
              /\ 400 <= response'.code /\ response'.code < 500
              /\ website' = website
         /\ (InRange(response'.payload) /\ response'.payload.url_ok) =>
              /\ Len(website') = Len(website) + 1
              /\ SubSeq(website', 1, Len(website)) = website]_vars

\* A one-character name, everything else in range, answered with 500.
C8_Witness ==
    /\ response.op = "create_website" /\ response.code = 500
    /\ response.payload.name = 1 /\ response.payload.url_ok
    /\ response.payload.interval_seconds = 30

\* ---------------------------------------------------------------- C9
\* C9 as stated: every probe attempted leaves response_time_ms present: the
\* rounded-down elapsed milliseconds on success, the time to the failure
\* point on failure.
C9_AsStated ==
    CheckDone =>
        /\ IsSome(Result.response_time_ms)
        /\ ~Raised(Probe) =>
             /\ Val(Result.response_time_ms) * 1000 <= Probe.elapsed_us
             /\ Probe.elapsed_us < (Val(Result.response_time_ms) + 1) * 1000

\* C9 amended: response_time_ms is present exactly when requests.get
\* returned a response (also when a later step of the probe raised), as the
\* rounded-down elapsed milliseconds of the request; it is absent whenever
\* the request itself raised, although the timer had been started.
C9_ResponseTime ==
    CheckDone =>
        /\ IsSome(Result.response_time_ms) <=> ~Probe.raised
        /\ ~Probe.raised =>
             /\ Val(Result.response_time_ms) * 1000 <= Probe.elapsed_us
             /\ Probe.elapsed_us < (Val(Result.response_time_ms) + 1) * 1000

C9_Witness ==
    /\ CheckDone /\ ~Probe.raised /\ Probe.elapsed_us = 100900
    /\ Result.response_time_ms = Some(100) /\ IsSome(Result.error)

\* --------------------------------------------------------------- C10
\* Every stored CheckResult names, through ObjectId(website_id), a stored
\* Website.
C10_Inv ==
    \A r \in Range(checkresult) :
        /\ r.website_id.kind = "hex"
        /\ \E w \in Range(website) : w.id = r.website_id.id
IsPrefix(a, b) == Len(a) <= Len(b) /\ SubSeq(b, 1, Len(a)) = a
\* No step deletes or changes a stored document, a step adds at most one
\* document to one collection, and a step that completes a read leaves the
\* three collections unchanged.
C10_Step ==
    /\ IsPrefix(category, category')
    /\ IsPrefix(website, website')
    /\ IsPrefix(checkresult, checkresult')
    /\ Len(category') + Len(website') + Len(checkresult')
         <= Len(category) + Len(website) + Len(checkresult) + 1
    /\ (response' # response
          /\ response'.op \in {"get_website", "latest_checks", "summary"}) =>
         <<category, website, checkresult>>' = <<category, website, checkresult>>

\* C10: after any interleaving of API operations every CheckResult's
\* website_id resolves to a stored Website, and no operation deletes or
\* modifies a stored document.
C10_References == [](C10_Inv) /\ [][C10_Step]_vars

C10_Witness ==
    /\ \E r \in Range(checkresult) : r.website_id.upper
    /\ Len(category) = 1 /\ Len(website) = 1 /\ Len(checkresult) = 2
====
